---- MODULE Spec2Model ----
(***************************************************************************)
(* NB5Executor (backend/nb5_executor.py): the job registry, the start,     *)
(* status, terminate and list operations, the per-job monitor thread, its  *)
(* delayed cleanup and the two output capture threads of each job.         *)
(* The API operations are issued one at a time by                          *)
(* the request loop of backend/main.py (async handlers that call the       *)
(* executor synchronously); the monitor and cleanup threads of every job   *)
(* run concurrently with it and with each other, one source statement per  *)
(* step wherever shared state is read or written.                          *)
(***************************************************************************)
EXTENDS Integers, Sequences, FiniteSets, TLC

(* ---------------------------- bounds ----------------------------------- *)
MaxJobs == 2        \* processes spawned over the life of the executor
MaxTime == 3        \* last reading of the wall clock, in ticks
TicksPerMs == 2     \* clock ticks per millisecond (resolution of time.time())
MaxStderr == 2      \* terminate_execution is not issued on a longer stderr log
MaxRuns == 2        \* commands DSBulkManager.execute_command launches
MaxLines == 2       \* lines a process writes to stderr, one fewer to stdout

Jobs == 1..MaxJobs
\* line 112: the id is the clock reading cut to whole milliseconds
IdOf(t) == t \div TicksPerMs
Ids == 0..(IdOf(MaxTime) + 1)
NoTimeout == 0
Timeouts == {NoTimeout, 1}

Terminal == {"completed", "failed", "timeout", "terminated", "error"}
TimeoutLine == "Execution timed out and was terminated."
TerminateLine == "Execution was manually terminated."
ExitLinePrefix == "Process exited with return code "
ExitLine(rc) == ExitLinePrefix \o rc
ErrorLine == "Error monitoring process: "
NoCommand == "Command not available"

VARIABLES
  now,          \* time.time(), in ticks
  active,       \* self.active_executions: execution_id -> entry
  logs,         \* self.execution_logs: execution_id -> [stdout, stderr, status]
  logOrder,     \* insertion order of the keys of execution_logs
  files,        \* temporary YAML files on disk (named by the start that made them)
  proc,         \* the spawned processes
  started,      \* per spawned process: the arguments its threads were given
  monPc,        \* position of each job's _monitor_process thread
  monExec,      \* its local `execution`
  monRc,        \* its local `return_code`
  cleanPc,      \* position of each job's delayed_cleanup thread
  apiPc,        \* position of the request in flight
  apiOp,        \* its operation
  apiArg,       \* its execution_id argument
  apiProc,      \* its local `process`
  apiRet,       \* what it returned or raised
  apiEntry,     \* the job's status when terminate_execution was entered
  termCalled,   \* the processes terminate_execution has taken in hand
  apiFound,     \* terminate_execution found the process running (line 315)
  written,      \* the lines each process has written to its stdout and stderr
  capPos,       \* how many of them each _capture_output thread has read
  capPc,        \* position of each job's two _capture_output threads
  dsbulk_path,  \* DSBulkManager.dsbulk_path
  jarExists,    \* os.path.exists(dsbulk_path)
  dsOp,         \* the DSBulkManager method called last
  dsArgs,       \* its arguments
  dsRet,        \* what it returned or raised
  dsRuns        \* how many times subprocess.run was called

vars == <<now, active, logs, logOrder, files, proc, started, monPc, monExec,
          monRc, cleanPc, apiPc, apiOp, apiArg, apiProc, apiRet, apiEntry,
          termCalled, apiFound, written, capPos, capPc,
          dsbulk_path, jarExists, dsOp, dsArgs, dsRet, dsRuns>>

dsVars == <<dsbulk_path, jarExists, dsOp, dsArgs, dsRet, dsRuns>>
nb5Vars == <<now, active, logs, logOrder, files, proc, started, monPc, monExec,
             monRc, cleanPc, apiPc, apiOp, apiArg, apiProc, apiRet, apiEntry,
             termCalled, apiFound, written, capPos, capPc>>

(* ---------------------------- dictionaries ----------------------------- *)
Put(d, k, v) == [x \in (DOMAIN d) \cup {k} |-> IF x = k THEN v ELSE d[x]]
Del(d, k) == [x \in (DOMAIN d) \ {k} |-> d[x]]

SetStatus(id, s) == [logs EXCEPT ![id].status = s]
AppendStderr(id, line) == [logs EXCEPT ![id].stderr = Append(@, line)]

(* ---------------------------- processes -------------------------------- *)
NoProc == [state |-> "none", code |-> "None", sigterm |-> FALSE, sigkill |-> FALSE,
           exit_at |-> 0]
NewProc == [state |-> "alive", code |-> "None", sigterm |-> FALSE, sigkill |-> FALSE,
            exit_at |-> 0]

\* Popen.poll(): the exit code, None while the process has not exited
Poll(p) == proc[p].code
Alive(p) == proc[p].state = "alive"

\* Popen.terminate() / Popen.kill(): no signal is sent to an exited process
SendTerm(p) == IF Alive(p) THEN [proc EXCEPT ![p].sigterm = TRUE] ELSE proc
SendKill(p) == IF Alive(p) THEN [proc EXCEPT ![p].sigkill = TRUE] ELSE proc

NoExec == [process |-> 0, command |-> "", yaml_path |-> 0, start_time |-> 0, timeout |-> 0]
NoRet == [kind |-> "none"]

\* NB5Executor.__init__ (lines 20-23)
InitExecutor ==
  /\ now = 0
  /\ active = << >>
  /\ logs = << >>
  /\ logOrder = << >>
  /\ files = {}
  /\ proc = [p \in Jobs |-> NoProc]
  /\ started = << >>
  /\ monPc = [p \in Jobs |-> "none"]
  /\ monExec = [p \in Jobs |-> NoExec]
  /\ monRc = [p \in Jobs |-> "None"]
  /\ cleanPc = [p \in Jobs |-> "none"]
  /\ apiPc = "idle"
  /\ apiOp = "none"
  /\ apiArg = 0
  /\ apiProc = 0
  /\ apiRet = NoRet
  /\ apiEntry = ""
  /\ termCalled = {}
  /\ apiFound = FALSE
  /\ written = [p \in Jobs |-> [stdout |-> << >>, stderr |-> << >>]]
  /\ capPos = [p \in Jobs |-> [stdout |-> 0, stderr |-> 0]]
  /\ capPc = [p \in Jobs |-> [stdout |-> "none", stderr |-> "none"]]

\* dsbulk_utils.py lines 15-19: an empty or missing path means the default jar
DefaultJar == "~/workspace/dsbulk-1.11.0.jar"
NewManagerPath(path) == IF path = "" THEN DefaultJar ELSE path

Init ==
  /\ InitExecutor
  /\ dsbulk_path = NewManagerPath("")
  /\ jarExists = TRUE
  /\ dsOp = "none"
  /\ dsArgs = << >>
  /\ dsRet = NoRet
  /\ dsRuns = 0

(* ---------------------------- environment ------------------------------ *)
Tick ==
  /\ now < MaxTime
  /\ now' = now + 1
  /\ UNCHANGED <<active, logs, logOrder, files, proc, started, monPc, monExec,
                 monRc, cleanPc, apiPc, apiOp, apiArg, apiProc, apiRet,
                 apiEntry, termCalled, apiFound,
                 written, capPos, capPc, dsVars>>

\* the exit codes a process can end with: its own (0 or 1) unless a SIGKILL is
\* pending, -15 once it received SIGTERM, -9 once it received SIGKILL
ExitCodes(p) ==
  (IF proc[p].sigkill THEN {"-9"} ELSE {"0", "1"})
    \cup (IF proc[p].sigterm /\ ~proc[p].sigkill THEN {"-15"} ELSE {})

ProcExit(p) ==
  /\ Alive(p)
  /\ \E c \in ExitCodes(p) : proc' = [proc EXCEPT ![p] = [@ EXCEPT !.state = "exited", !.code = c, !.exit_at = now]]
  /\ UNCHANGED <<now, active, logs, logOrder, files, started, monPc, monExec,
                 monRc, cleanPc, apiPc, apiOp, apiArg, apiProc, apiRet,
                 apiEntry, termCalled, apiFound,
                 written, capPos, capPc, dsVars>>

(* ---------------------------- execute_nb5_command ---------------------- *)
\* lines 75-78, 84-88, 121-128 with 175-183: validate_nb5_path, the temporary
\* file or Popen fails; a temporary file that was created is unlinked again
ExecuteFailEarly(fail) ==
  /\ apiPc = "idle"
  /\ fail \in {"jar", "tempfile", "popen"}
  /\ apiPc' = "raised"
  /\ apiOp' = "execute"
  /\ apiRet' = [kind |-> "error", msg |-> fail]
  /\ UNCHANGED <<now, active, logs, logOrder, files, proc, started, monPc,
                 monExec, monRc, cleanPc, apiArg, apiProc,
                 apiEntry, termCalled, apiFound,
                 written, capPos, capPc, dsVars>>

\* lines 38-60, 116-118: the display command names the job's own YAML file
CommandString(k) == "java --enable-preview -jar nb5.jar yaml" \o ToString(k)

NewEntry(k, t, to) ==
  [process |-> k, command |-> CommandString(k), yaml_path |-> k,
   start_time |-> t, timeout |-> to]
NewLogs == [stdout |-> << >>, stderr |-> << >>, status |-> "running"]

\* lines 84-173: the temporary file is written, the id is taken from the clock,
\* the process is spawned (d ticks pass), the job is registered and the threads
\* are started; `fail` = "thread" is the first Thread.start() raising after
\* registration (lines 146-167), handled by lines 175-183
Execute(fail, to, d) ==
  /\ apiPc = "idle"
  /\ fail \in {"none", "thread"}
  /\ Len(started) < MaxJobs
  /\ now + d <= MaxTime
  /\ LET k == Len(started) + 1
         id == IdOf(now)
     IN /\ now' = now + d
        /\ proc' = [proc EXCEPT ![k] = NewProc]
        /\ active' = Put(active, id, NewEntry(k, now + d, to))
        /\ logs' = Put(logs, id, NewLogs)
        /\ logOrder' = IF id \in DOMAIN logs THEN logOrder ELSE Append(logOrder, id)
        /\ started' = Append(started, [execution_id |-> id, start_time |-> now + d,
                                       timeout |-> to, ok |-> (fail = "none")])
        /\ apiOp' = "execute"
        /\ IF fail = "none"
             THEN /\ monPc' = [monPc EXCEPT ![k] = "start"]
                  /\ capPc' = [capPc EXCEPT ![k] = [stdout |-> "reading",
                                                   stderr |-> "reading"]]
                  /\ files' = files \cup {k}
                  /\ apiPc' = "returned"
                  /\ apiRet' = [kind |-> "started", execution_id |-> id,
                                command |-> CommandString(k), status |-> "running"]
             ELSE /\ monPc' = monPc
                  /\ capPc' = capPc
                  /\ files' = files \ {k}
                  /\ apiPc' = "raised"
                  /\ apiRet' = [kind |-> "error", msg |-> fail]
  /\ UNCHANGED <<monExec, monRc, cleanPc, apiArg, apiProc,
                 apiEntry, termCalled, apiFound,
                 written, capPos, dsVars>>

\* the request is answered; the next one may be issued
ApiDone ==
  /\ apiPc \in {"returned", "raised"}
  /\ apiPc' = "idle"
  /\ apiOp' = "none"
  /\ apiArg' = 0
  /\ apiProc' = 0
  /\ apiRet' = NoRet
  /\ apiEntry' = ""
  /\ apiFound' = FALSE
  /\ UNCHANGED <<now, active, logs, logOrder, files, proc, started, monPc,
                 monExec, monRc, cleanPc, termCalled,
                 written, capPos, capPc, dsVars>>

(* ---------------------------- get_execution_status --------------------- *)
\* lines 296-303
View(id, cmd, running) ==
  [kind |-> "view", execution_id |-> id, status |-> logs[id].status,
   command |-> cmd, is_running |-> running,
   stdout |-> logs[id].stdout, stderr |-> logs[id].stderr]

\* lines 286-288
CommandOf(id) == IF id \in DOMAIN active THEN active[id].command ELSE NoCommand

\* get_execution_status testing active_executions, as terminate_execution does
GsCheckActiveOnly(id) ==
  IF id \notin DOMAIN active
    THEN /\ apiPc' = "raised"
         /\ apiRet' = [kind |-> "error", msg |-> "not found"]
    ELSE /\ apiPc' = "gs_lookup"
         /\ apiRet' = [kind |-> "pending", command |-> CommandOf(id)]

\* lines 280-292: unknown id raises; the command is read; the membership test
\* of line 292 decides whether the process is looked up
GsCheck(id) ==
  IF id \notin DOMAIN logs
    THEN /\ apiPc' = "raised"
         /\ apiRet' = [kind |-> "error", msg |-> "not found"]
    ELSE IF id \in DOMAIN active
      THEN /\ apiPc' = "gs_lookup"
           /\ apiRet' = [kind |-> "pending", command |-> CommandOf(id)]
      ELSE /\ apiPc' = "returned"
           /\ apiRet' = View(id, CommandOf(id), FALSE)

GetStatusCall(id) ==
  /\ apiPc = "idle"
  /\ apiOp' = "get_status"
  /\ apiArg' = id
  /\ GsCheck(id)
  /\ UNCHANGED <<now, active, logs, logOrder, files, proc, started, monPc,
                 monExec, monRc, cleanPc, apiProc,
                 apiEntry, termCalled, apiFound,
                 written, capPos, capPc, dsVars>>

\* line 329 reached from terminate_execution
GetStatusCheck ==
  /\ apiPc = "gs_check"
  /\ GsCheck(apiArg)
  /\ UNCHANGED <<now, active, logs, logOrder, files, proc, started, monPc,
                 monExec, monRc, cleanPc, apiOp, apiArg, apiProc,
                 apiEntry, termCalled, apiFound,
                 written, capPos, capPc, dsVars>>

\* get_execution_status taking is_running from the stored status
GetStatusLookupStale ==
  /\ apiPc = "gs_lookup"
  /\ IF apiArg \notin DOMAIN active
       THEN /\ apiPc' = "raised"
            /\ apiRet' = [kind |-> "error", msg |-> "KeyError"]
       ELSE /\ apiPc' = "returned"
            /\ apiRet' = View(apiArg, apiRet.command, logs[apiArg].status = "running")
  /\ UNCHANGED <<now, active, logs, logOrder, files, proc, started, monPc,
                 monExec, monRc, cleanPc, apiOp, apiArg, apiProc,
                 apiEntry, termCalled, apiFound,
                 written, capPos, capPc, dsVars>>

\* lines 293-303: the entry is looked up again (KeyError when it was evicted in
\* between), the process polled and the view built
GetStatusLookup ==
  /\ apiPc = "gs_lookup"
  /\ IF apiArg \notin DOMAIN active
       THEN /\ apiPc' = "raised"
            /\ apiRet' = [kind |-> "error", msg |-> "KeyError"]
       ELSE /\ apiPc' = "returned"
            /\ apiRet' = View(apiArg, apiRet.command, Alive(active[apiArg].process))
  /\ UNCHANGED <<now, active, logs, logOrder, files, proc, started, monPc,
                 monExec, monRc, cleanPc, apiOp, apiArg, apiProc,
                 apiEntry, termCalled, apiFound,
                 written, capPos, capPc, dsVars>>

(* ---------------------------- terminate_execution ---------------------- *)
\* lines 307-313
TerminateCall(id) ==
  /\ apiPc = "idle"
  /\ id \in DOMAIN logs => Len(logs[id].stderr) < MaxStderr
  /\ apiOp' = "terminate"
  /\ apiArg' = id
  /\ apiEntry' = IF id \in DOMAIN logs THEN logs[id].status ELSE ""
  /\ IF id \notin DOMAIN active
       THEN /\ apiPc' = "raised"
            /\ apiRet' = [kind |-> "error", msg |-> "not found or already completed"]
            /\ apiProc' = apiProc
            /\ termCalled' = termCalled
       ELSE /\ apiPc' = "term_poll"
            /\ apiRet' = apiRet
            /\ apiProc' = active[id].process
            /\ termCalled' = termCalled \cup {active[id].process}
  /\ UNCHANGED <<now, active, logs, logOrder, files, proc, started, monPc,
                 monExec, monRc, cleanPc, apiFound,
                 written, capPos, capPc, dsVars>>

\* lines 315-317
TerminatePoll ==
  /\ apiPc = "term_poll"
  /\ apiFound' = Alive(apiProc)
  /\ IF Alive(apiProc)
       THEN /\ proc' = SendTerm(apiProc)
            /\ apiPc' = "term_wait"
       ELSE /\ proc' = proc
            /\ apiPc' = "gs_check"
  /\ UNCHANGED <<now, active, logs, logOrder, files, started, monPc, monExec,
                 monRc, cleanPc, apiOp, apiArg, apiProc, apiRet,
                 apiEntry, termCalled,
                 written, capPos, capPc, dsVars>>

\* lines 318-321: wait returns once the process has exited; while it is alive
\* the grace period may expire, and the process is killed without a wait
TerminateWait ==
  /\ apiPc = "term_wait"
  /\ proc' = SendKill(apiProc)
  /\ apiPc' = "term_set"
  /\ UNCHANGED <<now, active, logs, logOrder, files, started, monPc, monExec,
                 monRc, cleanPc, apiOp, apiArg, apiProc, apiRet,
                 apiEntry, termCalled, apiFound,
                 written, capPos, capPc, dsVars>>

\* lines 323-324
TerminateSet ==
  /\ apiPc = "term_set"
  /\ IF apiArg \in DOMAIN logs
       THEN /\ logs' = SetStatus(apiArg, "terminated")
            /\ apiPc' = "term_append"
       ELSE /\ logs' = logs
            /\ apiPc' = "gs_check"
  /\ UNCHANGED <<now, active, logOrder, files, proc, started, monPc, monExec,
                 monRc, cleanPc, apiOp, apiArg, apiProc, apiRet,
                 apiEntry, termCalled, apiFound,
                 written, capPos, capPc, dsVars>>

\* lines 325-327
TerminateAppend ==
  /\ apiPc = "term_append"
  /\ logs' = AppendStderr(apiArg, TerminateLine)
  /\ apiPc' = "gs_check"
  /\ UNCHANGED <<now, active, logOrder, files, proc, started, monPc, monExec,
                 monRc, cleanPc, apiOp, apiArg, apiProc, apiRet,
                 apiEntry, termCalled, apiFound,
                 written, capPos, capPc, dsVars>>

(* ---------------------------- list_executions -------------------------- *)
\* lines 336-358
Summary(id) ==
  [execution_id |-> id,
   status |-> logs[id].status,
   is_running |-> IF id \in DOMAIN active THEN Alive(active[id].process) ELSE FALSE,
   command |-> CommandOf(id),
   start_time |-> IF id \in DOMAIN active THEN active[id].start_time ELSE 0,
   log_size |-> Len(logs[id].stdout) + Len(logs[id].stderr)]

\* list.sort(key=start_time, reverse=True) is stable: x, which came after every
\* element of s, goes behind those whose key is not smaller
InsertDesc(s, x) ==
  LET n == Cardinality({i \in 1..Len(s) : s[i].start_time >= x.start_time})
  IN SubSeq(s, 1, n) \o <<x>> \o SubSeq(s, n + 1, Len(s))

RECURSIVE SortDesc(_)
SortDesc(s) ==
  IF s = << >> THEN << >>
  ELSE InsertDesc(SortDesc(SubSeq(s, 1, Len(s) - 1)), s[Len(s)])

\* lines 331-363
ListResult == SortDesc([i \in 1..Len(logOrder) |-> Summary(logOrder[i])])

ListCall ==
  /\ apiPc = "idle"
  /\ apiOp' = "list"
  /\ apiPc' = "returned"
  /\ apiRet' = [kind |-> "list", items |-> ListResult]
  /\ UNCHANGED <<now, active, logs, logOrder, files, proc, started, monPc,
                 monExec, monRc, cleanPc, apiArg, apiProc,
                 apiEntry, termCalled, apiFound,
                 written, capPos, capPc, dsVars>>

(* ---------------------------- _monitor_process ------------------------- *)
MonId(k) == started[k].execution_id
MonGoto(k, pc) == monPc' = [monPc EXCEPT ![k] = pc]

\* lines 205-211
MonStart(k) ==
  /\ monPc[k] = "start"
  /\ IF MonId(k) \notin DOMAIN active
       THEN /\ MonGoto(k, "done")
            /\ monExec' = monExec
       ELSE /\ MonGoto(k, "loop")
            /\ monExec' = [monExec EXCEPT ![k] = active[MonId(k)]]
  /\ UNCHANGED <<now, active, logs, logOrder, files, proc, started, monRc,
                 cleanPc, apiPc, apiOp, apiArg, apiProc, apiRet,
                 apiEntry, termCalled, apiFound,
                 written, capPos, capPc, dsVars>>

\* line 214
MonPoll(k) ==
  /\ monPc[k] = "loop"
  /\ MonGoto(k, IF Alive(monExec[k].process) THEN "check" ELSE "rc")
  /\ UNCHANGED <<now, active, logs, logOrder, files, proc, started, monExec,
                 monRc, cleanPc, apiPc, apiOp, apiArg, apiProc, apiRet,
                 apiEntry, termCalled, apiFound,
                 written, capPos, capPc, dsVars>>

\* the timeout test without `timeout and`
TimedOutUnguarded(e) == (now - e.start_time) > e.timeout

\* line 216
TimedOut(e) == e.timeout # NoTimeout /\ (now - e.start_time) > e.timeout

\* lines 216, 229: past the timeout the process is terminated, otherwise the
\* monitor sleeps and polls again
MonCheck(k) ==
  /\ monPc[k] = "check"
  /\ MonGoto(k, IF TimedOut(monExec[k]) THEN "to_term" ELSE "loop")
  /\ UNCHANGED <<now, active, logs, logOrder, files, proc, started, monExec,
                 monRc, cleanPc, apiPc, apiOp, apiArg, apiProc, apiRet,
                 apiEntry, termCalled, apiFound,
                 written, capPos, capPc, dsVars>>

\* the monitor killing the process without terminate() first
MonTimeoutTermKills(k) ==
  /\ monPc[k] = "to_term"
  /\ proc' = SendKill(monExec[k].process)
  /\ MonGoto(k, "to_wait")
  /\ UNCHANGED <<now, active, logs, logOrder, files, started, monExec, monRc,
                 cleanPc, apiPc, apiOp, apiArg, apiProc, apiRet,
                 apiEntry, termCalled, apiFound,
                 written, capPos, capPc, dsVars>>

\* line 217
MonTimeoutTerm(k) ==
  /\ monPc[k] = "to_term"
  /\ proc' = SendTerm(monExec[k].process)
  /\ MonGoto(k, "to_wait")
  /\ UNCHANGED <<now, active, logs, logOrder, files, started, monExec, monRc,
                 cleanPc, apiPc, apiOp, apiArg, apiProc, apiRet,
                 apiEntry, termCalled, apiFound,
                 written, capPos, capPc, dsVars>>

\* lines 218-221
MonTimeoutWait(k) ==
  /\ monPc[k] = "to_wait"
  /\ proc' = SendKill(monExec[k].process)
  /\ MonGoto(k, "to_set")
  /\ UNCHANGED <<now, active, logs, logOrder, files, started, monExec, monRc,
                 cleanPc, apiPc, apiOp, apiArg, apiProc, apiRet,
                 apiEntry, termCalled, apiFound,
                 written, capPos, capPc, dsVars>>

\* lines 223-224
MonTimeoutSet(k) ==
  /\ monPc[k] = "to_set"
  /\ IF MonId(k) \in DOMAIN logs
       THEN /\ logs' = SetStatus(MonId(k), "timeout")
            /\ MonGoto(k, "to_append")
       ELSE /\ logs' = logs
            /\ MonGoto(k, "rc")
  /\ UNCHANGED <<now, active, logOrder, files, proc, started, monExec, monRc,
                 cleanPc, apiPc, apiOp, apiArg, apiProc, apiRet,
                 apiEntry, termCalled, apiFound,
                 written, capPos, capPc, dsVars>>

\* lines 225-228
MonTimeoutAppend(k) ==
  /\ monPc[k] = "to_append"
  /\ logs' = AppendStderr(MonId(k), TimeoutLine)
  /\ MonGoto(k, "rc")
  /\ UNCHANGED <<now, active, logOrder, files, proc, started, monExec, monRc,
                 cleanPc, apiPc, apiOp, apiArg, apiProc, apiRet,
                 apiEntry, termCalled, apiFound,
                 written, capPos, capPc, dsVars>>

\* line 231
MonReturnCode(k) ==
  /\ monPc[k] = "rc"
  /\ monRc' = [monRc EXCEPT ![k] = Poll(monExec[k].process)]
  /\ MonGoto(k, "fin_read")
  /\ UNCHANGED <<now, active, logs, logOrder, files, proc, started, monExec,
                 cleanPc, apiPc, apiOp, apiArg, apiProc, apiRet,
                 apiEntry, termCalled, apiFound,
                 written, capPos, capPc, dsVars>>

\* line 236
KeepsStatus(s) == s \in {"timeout", "terminated"}

\* lines 234-236
MonFinRead(k) ==
  /\ monPc[k] = "fin_read"
  /\ MonGoto(k, IF MonId(k) \in DOMAIN logs /\ ~KeepsStatus(logs[MonId(k)].status)
                  THEN "fin_write" ELSE "unlink")
  /\ UNCHANGED <<now, active, logs, logOrder, files, proc, started, monExec,
                 monRc, cleanPc, apiPc, apiOp, apiArg, apiProc, apiRet,
                 apiEntry, termCalled, apiFound,
                 written, capPos, capPc, dsVars>>

\* lines 237-240
MonFinWrite(k) ==
  /\ monPc[k] = "fin_write"
  /\ IF monRc[k] = "0"
       THEN /\ logs' = SetStatus(MonId(k), "completed")
            /\ MonGoto(k, "unlink")
       ELSE /\ logs' = SetStatus(MonId(k), "failed")
            /\ MonGoto(k, "fin_append")
  /\ UNCHANGED <<now, active, logOrder, files, proc, started, monExec, monRc,
                 cleanPc, apiPc, apiOp, apiArg, apiProc, apiRet,
                 apiEntry, termCalled, apiFound,
                 written, capPos, capPc, dsVars>>

\* lines 241-243
MonFinAppend(k) ==
  /\ monPc[k] = "fin_append"
  /\ logs' = AppendStderr(MonId(k), ExitLine(monRc[k]))
  /\ MonGoto(k, "unlink")
  /\ UNCHANGED <<now, active, logOrder, files, proc, started, monExec, monRc,
                 cleanPc, apiPc, apiOp, apiArg, apiProc, apiRet,
                 apiEntry, termCalled, apiFound,
                 written, capPos, capPc, dsVars>>

\* lines 245-251
MonUnlink(k) ==
  /\ monPc[k] = "unlink"
  /\ files' = files \ {monExec[k].yaml_path}
  /\ MonGoto(k, "spawn")
  /\ UNCHANGED <<now, active, logs, logOrder, proc, started, monExec, monRc,
                 cleanPc, apiPc, apiOp, apiArg, apiProc, apiRet,
                 apiEntry, termCalled, apiFound,
                 written, capPos, capPc, dsVars>>

\* lines 255-266: the cleanup thread is started; Thread.start() raising sends
\* the monitor to its handler (line 268)
MonSpawnCleanup(k, fail) ==
  /\ monPc[k] = "spawn"
  /\ IF fail
       THEN /\ MonGoto(k, "err_set")
            /\ cleanPc' = cleanPc
       ELSE /\ MonGoto(k, "done")
            /\ cleanPc' = [cleanPc EXCEPT ![k] = "sleeping"]
  /\ UNCHANGED <<now, active, logs, logOrder, files, proc, started, monExec,
                 monRc, apiPc, apiOp, apiArg, apiProc, apiRet,
                 apiEntry, termCalled, apiFound,
                 written, capPos, capPc, dsVars>>

\* lines 272-273
MonErrSet(k) ==
  /\ monPc[k] = "err_set"
  /\ IF MonId(k) \in DOMAIN logs
       THEN /\ logs' = SetStatus(MonId(k), "error")
            /\ MonGoto(k, "err_append")
       ELSE /\ logs' = logs
            /\ MonGoto(k, "done")
  /\ UNCHANGED <<now, active, logOrder, files, proc, started, monExec, monRc,
                 cleanPc, apiPc, apiOp, apiArg, apiProc, apiRet,
                 apiEntry, termCalled, apiFound,
                 written, capPos, capPc, dsVars>>

\* lines 274-276
MonErrAppend(k) ==
  /\ monPc[k] = "err_append"
  /\ logs' = AppendStderr(MonId(k), ErrorLine)
  /\ MonGoto(k, "done")
  /\ UNCHANGED <<now, active, logOrder, files, proc, started, monExec, monRc,
                 cleanPc, apiPc, apiOp, apiArg, apiProc, apiRet,
                 apiEntry, termCalled, apiFound,
                 written, capPos, capPc, dsVars>>

\* delayed_cleanup emptying the job's log lines as well
DelayedCleanupClearsLogs(k) ==
  /\ cleanPc[k] = "sleeping"
  /\ cleanPc' = [cleanPc EXCEPT ![k] = "done"]
  /\ active' = IF MonId(k) \in DOMAIN active THEN Del(active, MonId(k)) ELSE active
  /\ logs' = [logs EXCEPT ![MonId(k)].stdout = << >>, ![MonId(k)].stderr = << >>]
  /\ UNCHANGED <<now, logOrder, files, proc, started, monPc, monExec,
                 monRc, apiPc, apiOp, apiArg, apiProc, apiRet,
                 apiEntry, termCalled, apiFound,
                 written, capPos, capPc, dsVars>>

\* delayed_cleanup deleting the job's execution_logs entry as well
DelayedCleanupDropsLogs(k) ==
  /\ cleanPc[k] = "sleeping"
  /\ cleanPc' = [cleanPc EXCEPT ![k] = "done"]
  /\ active' = IF MonId(k) \in DOMAIN active THEN Del(active, MonId(k)) ELSE active
  /\ logs' = Del(logs, MonId(k))
  /\ UNCHANGED <<now, logOrder, files, proc, started, monPc, monExec,
                 monRc, apiPc, apiOp, apiArg, apiProc, apiRet,
                 apiEntry, termCalled, apiFound,
                 written, capPos, capPc, dsVars>>

\* lines 258-261, once the retention period has passed
DelayedCleanup(k) ==
  /\ cleanPc[k] = "sleeping"
  /\ cleanPc' = [cleanPc EXCEPT ![k] = "done"]
  /\ active' = IF MonId(k) \in DOMAIN active THEN Del(active, MonId(k)) ELSE active
  /\ UNCHANGED <<now, logs, logOrder, files, proc, started, monPc, monExec,
                 monRc, apiPc, apiOp, apiArg, apiProc, apiRet,
                 apiEntry, termCalled, apiFound,
                 written, capPos, capPc, dsVars>>

(* ---------------------------- _capture_output -------------------------- *)
Streams == {"stdout", "stderr"}
Whitespace == {" ", "\t", "\n"}

\* the n-th line a process writes to a stream, character by character, with
\* its newline and with or without blanks before it
OutputLine(s, n, blank) ==
  <<(IF s = "stdout" THEN "o" ELSE "e"), ToString(n)>>
    \o (IF blank THEN <<" ">> ELSE << >>) \o <<"\n">>

\* every other line of a stream ends in a blank, the first one on stdout
EndsBlank(s, n) == (n % 2 = 1) = (s = "stdout")

\* lines the process writes to stream s: one fewer on stdout than on stderr
LinesOn(s) == IF s = "stderr" THEN MaxLines ELSE MaxLines - 1

\* the process writes its next line to the pipe of stream s
ProcWrite(p, s) ==
  /\ Alive(p)
  /\ Len(written[p][s]) < LinesOn(s)
  /\ written' = [written EXCEPT ![p][s] =
                  Append(@, OutputLine(s, Len(@) + 1, EndsBlank(s, Len(@) + 1)))]
  /\ UNCHANGED <<now, active, logs, logOrder, files, proc, started, monPc,
                 monExec, monRc, cleanPc, apiPc, apiOp, apiArg, apiProc, apiRet,
                 apiEntry, termCalled, apiFound, capPos, capPc, dsVars>>

\* str.rstrip(): trailing whitespace is cut off
RECURSIVE Rstrip(_)
Rstrip(l) ==
  IF l # << >> /\ l[Len(l)] \in Whitespace
    THEN Rstrip(SubSeq(l, 1, Len(l) - 1))
    ELSE l

\* the characters of l as one string
RECURSIVE Str(_)
Str(l) == IF l = << >> THEN "" ELSE l[1] \o Str(Tail(l))

\* _capture_output putting each line in front of the log
CaptureOutputInFront(k, s) ==
  /\ capPc[k][s] = "reading"
  /\ capPos[k][s] < Len(written[k][s]) \/ ~Alive(k)
  /\ IF capPos[k][s] < Len(written[k][s])
       THEN /\ capPos' = [capPos EXCEPT ![k][s] = @ + 1]
            /\ logs' = [logs EXCEPT ![MonId(k)][s] =
                          <<Str(Rstrip(written[k][s][capPos[k][s] + 1]))>> \o @]
            /\ capPc' = capPc
       ELSE /\ capPos' = capPos
            /\ logs' = logs
            /\ capPc' = [capPc EXCEPT ![k][s] = "closed"]
  /\ UNCHANGED <<now, active, logOrder, files, proc, started, monPc,
                 monExec, monRc, cleanPc, apiPc, apiOp, apiArg, apiProc, apiRet,
                 apiEntry, termCalled, apiFound, written, dsVars>>

\* lines 189-200: readline returns the next line of the pipe, which is
\* stripped and appended to the job's log, or '' at end-of-stream (the process
\* has exited and the pipe is drained), which ends the loop and closes the
\* stream; readline blocks while the pipe is empty and the process is alive
CaptureOutput(k, s) ==
  /\ capPc[k][s] = "reading"
  /\ capPos[k][s] < Len(written[k][s]) \/ ~Alive(k)
  /\ IF capPos[k][s] < Len(written[k][s])
       THEN /\ capPos' = [capPos EXCEPT ![k][s] = @ + 1]
            /\ IF MonId(k) \in DOMAIN logs
                 THEN /\ logs' = [logs EXCEPT ![MonId(k)][s] =
                                    Append(@, Str(Rstrip(written[k][s][capPos[k][s] + 1])))]
                      /\ capPc' = capPc
                 ELSE /\ logs' = logs
                      /\ capPc' = [capPc EXCEPT ![k][s] = "closed"]
       ELSE /\ capPos' = capPos
            /\ logs' = logs
            /\ capPc' = [capPc EXCEPT ![k][s] = "closed"]
  /\ UNCHANGED <<now, active, logOrder, files, proc, started, monPc,
                 monExec, monRc, cleanPc, apiPc, apiOp, apiArg, apiProc, apiRet,
                 apiEntry, termCalled, apiFound, written, dsVars>>

\* _capture_output marking the job as failed when its read raises
CaptureFailSetsError(k, s) ==
  /\ capPc[k][s] = "reading"
  /\ capPos[k][s] < Len(written[k][s])
  /\ capPc' = [capPc EXCEPT ![k][s] = "failed"]
  /\ logs' = SetStatus(MonId(k), "error")
  /\ UNCHANGED <<now, active, logOrder, files, proc, started, monPc,
                 monExec, monRc, cleanPc, apiPc, apiOp, apiArg, apiProc, apiRet,
                 apiEntry, termCalled, apiFound, written, capPos, dsVars>>

\* lines 194-200: readline raises on the next data of the pipe (text=True: a
\* byte sequence that does not decode); the handler logs through `logger`, the
\* stream is closed and the thread ends
CaptureFail(k, s) ==
  /\ capPc[k][s] = "reading"
  /\ capPos[k][s] < Len(written[k][s])
  /\ capPc' = [capPc EXCEPT ![k][s] = "failed"]
  /\ UNCHANGED <<now, active, logs, logOrder, files, proc, started, monPc,
                 monExec, monRc, cleanPc, apiPc, apiOp, apiArg, apiProc, apiRet,
                 apiEntry, termCalled, apiFound, written, capPos, dsVars>>

(* ---------------------------- specification ---------------------------- *)
\* the monitor of a job whose process exits on its own
MonitorExit(k) ==
  \/ MonStart(k) \/ MonPoll(k) \/ MonCheck(k)
  \/ MonReturnCode(k) \/ MonFinRead(k) \/ MonFinWrite(k) \/ MonFinAppend(k)
  \/ MonUnlink(k)
  \/ MonSpawnCleanup(k, FALSE)

Monitor(k) ==
  \/ MonitorExit(k)
  \/ MonTimeoutTerm(k) \/ MonTimeoutWait(k) \/ MonTimeoutSet(k) \/ MonTimeoutAppend(k)

\* the handler of the monitor, entered when Thread.start() raises
MonitorHandler(k) ==
  \/ MonSpawnCleanup(k, TRUE)
  \/ MonErrSet(k) \/ MonErrAppend(k)

\* the requests on the jobs that exist; a start is a separate disjunct
Requests ==
  \/ \E fail \in {"jar", "tempfile", "popen"} : ExecuteFailEarly(fail)
  \/ \E id \in Ids : GetStatusCall(id)
  \/ GetStatusCheck
  \/ GetStatusLookup
  \/ \E id \in Ids : TerminateCall(id)
  \/ TerminatePoll
  \/ TerminateWait
  \/ TerminateSet
  \/ TerminateAppend
  \/ ListCall

Start == \E to \in Timeouts, d \in {0, 1} : Execute("none", to, d)
StartThreadFails == \E to \in Timeouts, d \in {0, 1} : Execute("thread", to, d)

\* ApiDone touches the request's variables only, which no other thread reads:
\* every interleaving is equivalent to one that hands the answer over at once
Answered == apiPc \in {"returned", "raised"}

\* One job, under every interleaving of its process, its monitor and cleanup
\* threads, the clock and the requests.
Next ==
  \/ Answered /\ ApiDone
  \/ ~Answered /\ Tick
  \/ ~Answered /\ \E p \in Jobs : ProcExit(p)
  \/ ~Answered /\ started = << >> /\ Start
  \/ ~Answered /\ Requests
  \/ ~Answered /\ \E k \in Jobs : Monitor(k)
  \/ ~Answered /\ \E k \in Jobs : DelayedCleanup(k)

Spec == Init /\ [][Next]_vars

\* Up to MaxJobs jobs without a timeout running side by side, each ending by
\* the exit of its process, queried but not terminated.
StartUntimed == \E d \in {0, 1} : Execute("none", NoTimeout, d)

Queries ==
  \/ \E id \in Ids : GetStatusCall(id)
  \/ GetStatusLookup
  \/ ListCall

NextJobs ==
  \/ Answered /\ ApiDone
  \/ ~Answered /\ Tick
  \/ ~Answered /\ \E p \in Jobs : ProcExit(p)
  \/ ~Answered /\ StartUntimed
  \/ ~Answered /\ Queries
  \/ ~Answered /\ \E k \in Jobs : MonitorExit(k)
  \/ ~Answered /\ \E k \in Jobs : DelayedCleanup(k)

SpecJobs == Init /\ [][NextJobs]_vars

\* One job as in Spec, where moreover Thread.start() may raise: in
\* execute_nb5_command after the job was registered, and in the monitor when it
\* starts the cleanup thread.
NextFaults ==
  \/ Next
  \/ ~Answered /\ started = << >> /\ StartThreadFails
  \/ ~Answered /\ \E k \in Jobs : MonitorHandler(k)

SpecFaults == Init /\ [][NextFaults]_vars

\* One job without a timeout whose process writes to stdout and stderr, with
\* its two capture threads, its monitor and cleanup threads, and terminate
\* requests for the ids the executor has issued, until one of them has found
\* the job active (terminate_execution answers through get_execution_status);
\* a read of a capture thread may raise.  (In the
\* specifications above the processes write nothing and the capture threads
\* are not followed.)
CaptureRequests ==
  \/ GetStatusCheck
  \/ GetStatusLookup
  \/ \E id \in DOMAIN logs : termCalled = {} /\ TerminateCall(id)
  \/ TerminatePoll
  \/ TerminateWait
  \/ TerminateSet
  \/ TerminateAppend

NextCapture ==
  \/ Answered /\ ApiDone
  \/ ~Answered /\ started = << >> /\ StartUntimed
  \/ ~Answered /\ \E p \in Jobs : ProcExit(p)
  \/ ~Answered /\ \E p \in Jobs, s \in Streams : ProcWrite(p, s)
  \/ ~Answered /\ \E k \in Jobs, s \in Streams : CaptureOutput(k, s)
  \/ ~Answered /\ \E k \in Jobs, s \in Streams : CaptureFail(k, s)
  \/ ~Answered /\ CaptureRequests
  \/ ~Answered /\ \E k \in Jobs : MonitorExit(k)
  \/ ~Answered /\ \E k \in Jobs : DelayedCleanup(k)

SpecCapture == Init /\ [][NextCapture]_vars

\* A thread that has a statement to execute executes it: the request in
\* flight runs to its answer, and the monitor and cleanup threads (daemon
\* threads of a server that keeps running) are scheduled again and again.
\* Nothing makes a process exit, the clock advance or a client send a request.
RequestStep ==
  \/ GetStatusCheck \/ GetStatusLookup
  \/ TerminatePoll \/ TerminateWait \/ TerminateSet \/ TerminateAppend
  \/ ApiDone

Scheduling ==
  /\ WF_vars(RequestStep)
  /\ \A k \in Jobs : WF_vars(Monitor(k))
  /\ \A k \in Jobs : WF_vars(DelayedCleanup(k))

\* Spec under that scheduling
SpecFair == Init /\ [][Next]_vars /\ Scheduling

\* SpecFaults under the same scheduling, where moreover the handler of the
\* monitor, once entered, runs on and the system ends a process that was sent
\* SIGKILL
KilledExit(p) == proc[p].sigkill /\ ProcExit(p)
HandlerStep(k) == MonErrSet(k) \/ MonErrAppend(k)

SchedulingFaults ==
  /\ Scheduling
  /\ \A k \in Jobs : WF_vars(HandlerStep(k))
  /\ \A p \in Jobs : WF_vars(KilledExit(p))

SpecFaultsFair == Init /\ [][NextFaults]_vars /\ SchedulingFaults

(* ------------------- execute_nb5_command, step by step ------------------ *)
\* lines 84-128: the temporary file is written, the id is taken from the clock
\* and the process is spawned (d ticks pass); nothing is registered yet
ExecSpawn(d) ==
  /\ apiPc = "idle"
  /\ Len(started) < MaxJobs
  /\ now + d <= MaxTime
  /\ LET k == Len(started) + 1
     IN /\ proc[k].state = "none"
        /\ proc' = [proc EXCEPT ![k] = NewProc]
        /\ files' = files \cup {k}
        /\ apiProc' = k
  /\ now' = now + d
  /\ apiOp' = "execute"
  /\ apiArg' = IdOf(now)
  /\ apiPc' = "ex_active"
  /\ UNCHANGED <<active, logs, logOrder, started, monPc, monExec, monRc, cleanPc,
                 apiRet, apiEntry, termCalled, apiFound, written, capPos, capPc,
                 dsVars>>

\* execute_nb5_command starting the monitor as it stores the entry
ExecRegisterActiveStartsMonitor(to) ==
  /\ apiPc = "ex_active"
  /\ active' = Put(active, apiArg, NewEntry(apiProc, now, to))
  /\ started' = Append(started, [execution_id |-> apiArg, start_time |-> now,
                                  timeout |-> to, ok |-> TRUE])
  /\ monPc' = [monPc EXCEPT ![apiProc] = "start"]
  /\ apiPc' = "ex_logs"
  /\ UNCHANGED <<now, logs, logOrder, files, proc, monExec, monRc, cleanPc,
                 apiOp, apiArg, apiProc, apiRet, apiEntry, termCalled, apiFound,
                 written, capPos, capPc, dsVars>>

\* lines 131-137: the entry is stored with the clock reading of line 135
ExecRegisterActive(to) ==
  /\ apiPc = "ex_active"
  /\ active' = Put(active, apiArg, NewEntry(apiProc, now, to))
  /\ started' = Append(started, [execution_id |-> apiArg, start_time |-> now,
                                  timeout |-> to, ok |-> TRUE])
  /\ apiPc' = "ex_logs"
  /\ UNCHANGED <<now, logs, logOrder, files, proc, monPc, monExec, monRc, cleanPc,
                 apiOp, apiArg, apiProc, apiRet, apiEntry, termCalled, apiFound,
                 written, capPos, capPc, dsVars>>

\* lines 140-144
ExecRegisterLogs ==
  /\ apiPc = "ex_logs"
  /\ logs' = Put(logs, apiArg, NewLogs)
  /\ logOrder' = IF apiArg \in DOMAIN logs THEN logOrder ELSE Append(logOrder, apiArg)
  /\ apiPc' = "ex_stdout"
  /\ UNCHANGED <<now, active, files, proc, started, monPc, monExec, monRc, cleanPc,
                 apiOp, apiArg, apiProc, apiRet, apiEntry, termCalled, apiFound,
                 written, capPos, capPc, dsVars>>

\* lines 158 and 159: the capture thread of stream s is started
ExecStartCapture(s) ==
  /\ apiPc = "ex_" \o s
  /\ capPc' = [capPc EXCEPT ![apiProc][s] = "reading"]
  /\ apiPc' = IF s = "stdout" THEN "ex_stderr" ELSE "ex_monitor"
  /\ UNCHANGED <<now, active, logs, logOrder, files, proc, started, monPc, monExec,
                 monRc, cleanPc, apiOp, apiArg, apiProc, apiRet, apiEntry,
                 termCalled, apiFound, written, capPos, dsVars>>

\* line 167: the monitor thread is started
ExecStartMonitor ==
  /\ apiPc = "ex_monitor"
  /\ monPc' = [monPc EXCEPT ![apiProc] = "start"]
  /\ apiPc' = "ex_return"
  /\ UNCHANGED <<now, active, logs, logOrder, files, proc, started, monExec,
                 monRc, cleanPc, apiOp, apiArg, apiProc, apiRet, apiEntry,
                 termCalled, apiFound, written, capPos, capPc, dsVars>>

\* lines 169-173
ExecReturn ==
  /\ apiPc = "ex_return"
  /\ apiPc' = "returned"
  /\ apiRet' = [kind |-> "started", execution_id |-> apiArg,
                command |-> CommandString(apiProc), status |-> "running"]
  /\ UNCHANGED <<now, active, logs, logOrder, files, proc, started, monPc, monExec,
                 monRc, cleanPc, apiOp, apiArg, apiProc, apiEntry, termCalled,
                 apiFound, written, capPos, capPc, dsVars>>

ExecSteps ==
  \/ ExecRegisterActive(NoTimeout)
  \/ ExecRegisterLogs
  \/ \E s \in Streams : ExecStartCapture(s)
  \/ ExecStartMonitor
  \/ ExecReturn

\* One job without a timeout whose start is followed statement by statement,
\* with its process (which runs, writes and may exit from the moment it is
\* spawned), its capture, monitor and cleanup threads, and status requests.
NextStart ==
  \/ Answered /\ ApiDone
  \/ ~Answered /\ started = << >> /\ \E d \in {0, 1} : ExecSpawn(d)
  \/ ~Answered /\ ExecSteps
  \/ ~Answered /\ \E p \in Jobs : ProcExit(p)
  \/ ~Answered /\ \E p \in Jobs, s \in Streams : ProcWrite(p, s)
  \/ ~Answered /\ \E k \in Jobs, s \in Streams : CaptureOutput(k, s)
  \/ ~Answered /\ \E id \in Ids : GetStatusCall(id)
  \/ ~Answered /\ GetStatusLookup
  \/ ~Answered /\ \E k \in Jobs : MonitorExit(k)
  \/ ~Answered /\ \E k \in Jobs : DelayedCleanup(k)

SpecStart == Init /\ [][NextStart]_vars

(* ---------------------------- DSBulkManager ---------------------------- *)
\* values a caller may pass for a keyspace, a table, a key or a path
Values == {"data", "my data", "k;s'$(id)\"x"}
\* a limit: None is << >>, the integer n is <<n>>
Limits == {<< >>, <<-1>>, <<0>>, <<1>>, <<100>>}
\* a limit that applies whenever it is truthy
LimitTruthy(limit) == limit # << >> /\ limit[1] # 0

\* dsbulk_utils.py line 43: `limit and limit > 0`
LimitApplies(limit) == limit # << >> /\ limit[1] # 0 /\ limit[1] > 0

\* dsbulk_utils.py lines 41-56
generate_unload_command(path, keyspace, table, primary_key, output_path, limit) ==
  LET select == "SELECT \"" \o primary_key \o "\" FROM \"" \o keyspace
                  \o "\".\"" \o table \o "\""
      query == IF LimitApplies(limit)
                 THEN select \o " LIMIT " \o ToString(limit[1]) \o ";"
                 ELSE select \o ";"
  IN <<"java", "-jar", path, "unload", "-query", query, "-url", output_path>>

\* generate_load_command putting the path between quotes
generate_load_command_quoted(path, keyspace, table, csv_path) ==
  <<"java", "-jar", path, "load", "-k", keyspace, "-t", table,
    "-url", "'" \o csv_path \o "'">>

\* dsbulk_utils.py lines 66-74
generate_load_command(path, keyspace, table, csv_path) ==
  <<"java", "-jar", path, "load", "-k", keyspace, "-t", table, "-url", csv_path>>

\* dsbulk_utils.py lines 83-90
generate_count_command(path, keyspace, table) ==
  <<"java", "-jar", path, "count", "-k", keyspace, "-t", table>>

DsCall(op, args, ret) ==
  /\ dsOp' = op
  /\ dsArgs' = args
  /\ dsRet' = ret
  /\ UNCHANGED <<dsbulk_path, jarExists, dsRuns, nb5Vars>>

GenerateUnload(keyspace, table, primary_key, output_path, limit) ==
  DsCall("unload",
         [keyspace |-> keyspace, table |-> table, primary_key |-> primary_key,
          output_path |-> output_path, limit |-> limit],
         [kind |-> "list",
          args |-> generate_unload_command(dsbulk_path, keyspace, table,
                                           primary_key, output_path, limit)])

GenerateLoad(keyspace, table, csv_path) ==
  DsCall("load",
         [keyspace |-> keyspace, table |-> table, csv_path |-> csv_path],
         [kind |-> "list",
          args |-> generate_load_command(dsbulk_path, keyspace, table, csv_path)])

GenerateCount(keyspace, table) ==
  DsCall("count",
         [keyspace |-> keyspace, table |-> table],
         [kind |-> "list",
          args |-> generate_count_command(dsbulk_path, keyspace, table)])

\* what subprocess.run does: the command exits with 0 or not (CalledProcessError),
\* `java` is not on the PATH (FileNotFoundError), or another OSError
RunOutcomes == {"zero", "nonzero", "nojava", "oserror"}
FileNotFound == [kind |-> "raised", exc |-> "FileNotFoundError"]

\* execute_command without the test of the jar
ExecuteCommandUnchecked(command_args, outcome) ==
  /\ dsRuns < MaxRuns
  /\ dsOp' = "execute"
  /\ dsArgs' = command_args
  /\ dsRuns' = dsRuns + 1
  /\ dsRet' = CASE outcome = "zero" -> [kind |-> "dict", success |-> TRUE]
               [] outcome = "nonzero" -> [kind |-> "dict", success |-> FALSE]
               [] outcome = "nojava" -> FileNotFound
               [] OTHER -> [kind |-> "dict", success |-> FALSE]
  /\ UNCHANGED <<dsbulk_path, jarExists, nb5Vars>>

\* dsbulk_utils.py lines 94-142
ExecuteCommand(command_args, outcome) ==
  /\ dsRuns < MaxRuns
  /\ dsOp' = "execute"
  /\ dsArgs' = command_args
  /\ IF ~jarExists
       THEN /\ dsRet' = FileNotFound
            /\ dsRuns' = dsRuns
       ELSE /\ dsRuns' = dsRuns + 1
            /\ dsRet' = CASE outcome = "zero" -> [kind |-> "dict", success |-> TRUE]
                         [] outcome = "nonzero" -> [kind |-> "dict", success |-> FALSE]
                         [] outcome = "nojava" -> FileNotFound
                         [] OTHER -> [kind |-> "dict", success |-> FALSE]
  /\ UNCHANGED <<dsbulk_path, jarExists, nb5Vars>>

\* the jar is downloaded or removed
JarChanges ==
  /\ jarExists' = ~jarExists
  /\ UNCHANGED <<dsbulk_path, dsOp, dsArgs, dsRet, dsRuns, nb5Vars>>

\* A DSBulkManager made with any path, on a disk with or without the jar, and
\* its methods called with any arguments.
InitDsbulk ==
  /\ InitExecutor
  /\ \E path \in {"", "/opt/dsbulk.jar", "/opt/my tools/dsbulk.jar"} :
       dsbulk_path = NewManagerPath(path)
  /\ jarExists \in BOOLEAN
  /\ dsOp = "none"
  /\ dsArgs = << >>
  /\ dsRet = NoRet
  /\ dsRuns = 0

NextDsbulk ==
  \/ \E k \in Values, tb \in Values, pk \in Values, o \in Values, l \in Limits :
       GenerateUnload(k, tb, pk, o, l)
  \/ \E k \in Values, tb \in Values, c \in Values : GenerateLoad(k, tb, c)
  \/ \E k \in Values, tb \in Values : GenerateCount(k, tb)
  \/ \E k \in Values, o \in RunOutcomes :
       ExecuteCommand(generate_count_command(dsbulk_path, k, k), o)
  \/ JarChanges

SpecDsbulk == InitDsbulk /\ [][NextDsbulk]_vars

(* ---------------------------- properties ------------------------------- *)
\* the ids execute_nb5_command has registered so far
Registered == {started[k].execution_id : k \in DOMAIN started}
Has(id, line) == \E i \in 1..Len(logs[id].stderr) : logs[id].stderr[i] = line
IsNotFound(r) == r.kind = "error" /\ r.msg = "not found"

\* C1: once execution_logs[id]['status'] is terminal, no step of the monitor,
\* of terminate_execution or of any other thread changes it to another value.
C1_TerminalStatusIsFinal ==
  [][\A id \in DOMAIN logs :
       logs[id].status \in Terminal => logs'[id].status = logs[id].status]_vars

\* C2: the timeout path and terminate_execution never both finalize a job:
\* its stderr log never holds the explanatory line of both.
C2_OneFinalizerLine ==
  \A id \in DOMAIN logs : ~(Has(id, TimeoutLine) /\ Has(id, TerminateLine))

\* C3: a step of terminate_execution entered on a job whose status was terminal
\* signals no process and changes no log, and a view it returns carries the
\* status it found.
C3_TerminateIdempotent ==
  [][(apiOp' = "terminate" /\ apiEntry' \in Terminal /\ apiPc' # apiPc)
       => /\ proc' = proc
          /\ logs' = logs
          /\ apiPc' = "returned" => apiRet'.status = apiEntry']_vars

\* C4: terminate_execution raises not-found only for ids that were never
\* registered.
C4_TerminateNotFoundOnlyUnknown ==
  (apiOp = "terminate" /\ apiPc = "raised") => apiArg \notin Registered

\* C5: get_execution_status raises not-found exactly for the ids that were
\* never registered, and the call that raises it leaves active_executions and
\* execution_logs as they were.
C5_StatusNotFoundIffUnknown ==
  [][(apiOp' = "get_status" /\ apiPc' \in {"returned", "raised"} /\ apiPc' # apiPc)
       => /\ IsNotFound(apiRet') <=> (apiArg' \notin Registered)
          /\ IsNotFound(apiRet') => (active' = active /\ logs' = logs)]_vars

\* C5 witness: the status of a registered job is returned after its entry was
\* evicted from active_executions.
C5_Witness ==
  /\ apiOp = "get_status" /\ apiPc = "returned"
  /\ apiArg \in Registered /\ apiArg \notin DOMAIN active

\* C6: the execution ids of the started jobs are pairwise distinct.
C6_UniqueIds ==
  \A i, j \in DOMAIN started :
    i # j => started[i].execution_id # started[j].execution_id

\* the start time of the job most recently registered under an id
StartTimeOf(id) ==
  LET ks == {k \in DOMAIN started : started[k].execution_id = id}
  IN started[CHOOSE k \in ks : \A m \in ks : m <= k].start_time

\* C7: list_executions returns the jobs by start time, most recent first.
C7_ListByStartTimeDesc ==
  (apiOp = "list" /\ apiPc = "returned") =>
    \A i, j \in 1..Len(apiRet.items) :
      i < j => StartTimeOf(apiRet.items[i].execution_id)
                 >= StartTimeOf(apiRet.items[j].execution_id)

\* C8: list_executions returns one entry per successfully started job.
C8_ListHasEveryJob ==
  (apiOp = "list" /\ apiPc = "returned") =>
    Len(apiRet.items) = Cardinality({k \in DOMAIN started : started[k].ok})

\* C9: an execute_nb5_command that raises leaves no entry, no running job, no
\* live process and no temporary file behind.
C9_FailedStartRegistersNothing ==
  [][(apiOp' = "execute" /\ apiPc' = "raised" /\ apiPc = "idle")
       => /\ active' = active
          /\ logs' = logs
          /\ files' = files]_vars

\* the process of job k exited with code 0 within the job's timeout
ExitedZeroInTime(k) ==
  /\ proc[k].state = "exited" /\ proc[k].code = "0"
  /\ \/ started[k].timeout = NoTimeout
     \/ proc[k].exit_at - started[k].start_time <= started[k].timeout

\* C10: a job whose process exited with code 0 within its timeout, and that was
\* never handed to terminate_execution, is completed once its monitor is done.
C10_ExitZeroCompletes ==
  \A k \in DOMAIN started :
    (started[k].ok /\ ExitedZeroInTime(k) /\ k \notin termCalled /\ monPc[k] = "done")
      => logs[started[k].execution_id].status = "completed"

\* C11: at the step that sets a job's status to timeout, the job's process is
\* no longer alive.
C11_TimeoutSetOnDeadProcess ==
  [][\A k \in DOMAIN started :
       (/\ logs[started[k].execution_id].status # "timeout"
        /\ logs'[started[k].execution_id].status = "timeout"
        /\ monPc[k] = "to_set")
         => proc'[k].state # "alive"]_vars

\* C12: a terminate_execution that found the process running returns a view
\* with status terminated, with the line "Execution was manually terminated."
\* in stderr and with is_running false.
C12_TerminateStopsProcess ==
  (apiOp = "terminate" /\ apiPc = "returned" /\ apiFound)
    => /\ apiRet.status = "terminated"
       /\ \E i \in 1..Len(apiRet.stderr) : apiRet.stderr[i] = TerminateLine
       /\ ~apiRet.is_running

\* the process of job k exited by itself with code 1 within the job's timeout
ExitedOneInTime(k) ==
  /\ proc[k].state = "exited" /\ proc[k].code = "1"
  /\ \/ started[k].timeout = NoTimeout
     \/ proc[k].exit_at - started[k].start_time <= started[k].timeout

\* the lines of the stderr log of id that line 242 can have written
ExitLinesOf(id) ==
  {i \in 1..Len(logs[id].stderr) :
     logs[id].stderr[i] \in {ExitLine(c) : c \in {"0", "1", "-15", "-9"}}}

\* C13: a job whose process exited by itself with code 1 within its timeout,
\* and that was never handed to terminate_execution, is failed once its monitor
\* is done, and its stderr log holds one return-code line, which names code 1.
C13_ExitNonZeroFails ==
  \A k \in DOMAIN started :
    (started[k].ok /\ ExitedOneInTime(k) /\ k \notin termCalled /\ monPc[k] = "done")
      => LET id == started[k].execution_id
         IN /\ logs[id].status = "failed"
            /\ Cardinality(ExitLinesOf(id)) = 1
            /\ \A i \in ExitLinesOf(id) : logs[id].stderr[i] = ExitLine("1")

\* the process of the job registered under id has not exited
RunningNow(id) == id \in DOMAIN active /\ Alive(active[id].process)

\* C14: a view returned by get_execution_status (also at the end of
\* terminate_execution) and every entry returned by list_executions has
\* is_running true only for a job that has an active_executions entry and
\* whose process has not exited, whatever the stored status says.
C14_IsRunningLive ==
  /\ (apiOp \in {"get_status", "terminate"} /\ apiPc = "returned")
       => (apiRet.is_running => RunningNow(apiArg))
  /\ (apiOp = "list" /\ apiPc = "returned")
       => \A i \in 1..Len(apiRet.items) :
            apiRet.items[i].is_running => RunningNow(apiRet.items[i].execution_id)

\* C14 witness: get_execution_status answers is_running false for a job whose
\* process has exited while its stored status is still running.
C14_Witness ==
  /\ apiOp = "get_status" /\ apiPc = "returned"
  /\ apiRet.status = "running" /\ ~apiRet.is_running
  /\ apiArg \in DOMAIN active /\ proc[active[apiArg].process].state = "exited"

\* what get_execution_status(id) answers in the current state (lines 280-303)
AnswerOf(id) == View(id, CommandOf(id), RunningNow(id))

\* C15: the step of delayed_cleanup removes the job's active_executions entry
\* and nothing else: execution_logs, the other entries, the files and the
\* processes stay as they were, and get_execution_status answers the same
\* status and the same log lines after the step as before it.
C15_EvictionKeepsHistory ==
  [][\A k \in DOMAIN started :
       (cleanPc[k] = "sleeping" /\ cleanPc'[k] = "done")
         => LET id == started[k].execution_id
            IN /\ id \notin DOMAIN active'
               /\ \A x \in (DOMAIN active) \ {id} :
                    x \in DOMAIN active' /\ active'[x] = active[x]
               /\ logs' = logs /\ logOrder' = logOrder
               /\ files' = files /\ proc' = proc
               /\ AnswerOf(id)'.status = AnswerOf(id).status
               /\ AnswerOf(id)'.stdout = AnswerOf(id).stdout
               /\ AnswerOf(id)'.stderr = AnswerOf(id).stderr]_vars

\* C15 witness: get_execution_status returns a terminal status and a stderr
\* line for a job that delayed_cleanup has evicted.
C15_Witness ==
  /\ apiOp = "get_status" /\ apiPc = "returned"
  /\ \E k \in DOMAIN started :
       /\ cleanPc[k] = "done" /\ started[k].execution_id = apiArg
  /\ apiArg \notin DOMAIN active
  /\ apiRet.status \in Terminal /\ apiRet.stderr # << >>

\* the command line the job registered under id was started with
StartedCommands(id) ==
  {CommandString(k) : k \in {j \in DOMAIN started : started[j].execution_id = id}}

\* C16: every view returned by get_execution_status (also at the end of
\* terminate_execution) and every entry returned by list_executions carries
\* the command line the job was started with.
C16_CommandImmutable ==
  /\ (apiOp \in {"get_status", "terminate"} /\ apiPc = "returned")
       => apiRet.command \in StartedCommands(apiArg)
  /\ (apiOp = "list" /\ apiPc = "returned")
       => \A i \in 1..Len(apiRet.items) :
            apiRet.items[i].command \in StartedCommands(apiRet.items[i].execution_id)

\* C17: the temporary YAML file of a job is removed only by a step that leaves
\* the job's process exited.
C17_YamlDeletedAfterExit ==
  [][\A k \in DOMAIN started :
       (k \in files /\ k \notin files') => proc'[k].state = "exited"]_vars

\* the monitor of job k went through its handler (lines 268-276) and ended
MonitorFailed(k) == monPc[k] = "done" /\ Has(started[k].execution_id, ErrorLine)

\* C18: once the monitor of a job has ended through its handler, the job has
\* status error, its temporary YAML file is gone, and its active_executions
\* entry is removed or a delayed_cleanup thread exists that will remove it.
C18_ErrorStillFinalizes ==
  \A k \in DOMAIN started :
    MonitorFailed(k)
      => LET id == started[k].execution_id
         IN /\ logs[id].status = "error"
            /\ k \notin files
            /\ id \notin DOMAIN active \/ cleanPc[k] # "none"

\* a finalizer has written a status and not yet appended the line explaining it
Finalizing ==
  \/ apiPc = "term_append"
  \/ \E k \in DOMAIN started : monPc[k] \in {"to_append", "fin_append", "err_append"}

\* C19: once the status of a job is terminal and the line explaining it is
\* appended, no step changes the job's stdout or stderr log.
C19_LogsFrozenOnceTerminal ==
  [][\A id \in DOMAIN logs :
       (logs[id].status \in Terminal /\ ~Finalizing)
         => /\ logs'[id].stdout = logs[id].stdout
            /\ logs'[id].stderr = logs[id].stderr]_vars

IsPrefix(s, t) == Len(s) <= Len(t) /\ SubSeq(t, 1, Len(s)) = s

\* C20: every step leaves the stdout log and the stderr log of every
\* execution_id as they were or with lines added at the end.
C20_LogsAppendOnly ==
  [][\A id \in DOMAIN logs :
       /\ IsPrefix(logs[id].stdout, logs'[id].stdout)
       /\ IsPrefix(logs[id].stderr, logs'[id].stderr)]_vars

\* the lines the finalizers write into a stderr log
FinalizerLines ==
  {TimeoutLine, TerminateLine, ErrorLine} \cup {ExitLine(c) : c \in {"0", "1", "-15", "-9"}}

\* the lines of stream s that the capture thread of job k has read, as line 192
\* stores them
Captured(k, s) == [i \in 1..capPos[k][s] |-> Str(Rstrip(written[k][s][i]))]

IsOutput(line) == line \notin FinalizerLines

\* C21: the stdout log of a job is the sequence of the lines its capture
\* thread has read from the process's stdout, in the order written, and so is
\* the stderr log without the finalizers' lines; a capture thread that ended
\* without a read error has read every line the process wrote, and the
\* process has exited.
C21_CaptureIsFifo ==
  \A k \in DOMAIN started :
    LET id == started[k].execution_id
    IN /\ logs[id].stdout = Captured(k, "stdout")
       /\ SelectSeq(logs[id].stderr, IsOutput) = Captured(k, "stderr")
       /\ \A s \in Streams :
            capPc[k][s] = "closed"
              => capPos[k][s] = Len(written[k][s]) /\ ~Alive(k)

\* C21 witness: both capture threads ended at end-of-stream with every line
\* the process wrote logged, the stderr lines around a finalizer's line.
C21_Witness ==
  \E k \in DOMAIN started :
    LET id == started[k].execution_id
    IN /\ capPc[k].stdout = "closed" /\ capPc[k].stderr = "closed"
       /\ Len(logs[id].stdout) = LinesOn("stdout")
       /\ Len(logs[id].stderr) = LinesOn("stderr") + 1
       /\ ~IsOutput(logs[id].stderr[2])

\* C22: the step in which the read of a capture thread raises appends one line
\* to the log of that thread's stream and to no other log.
C22_ReadErrorIsLogged ==
  [][\A k \in DOMAIN started : \A s \in Streams :
       (capPc[k][s] = "reading" /\ capPc'[k][s] = "failed")
         => LET id == started[k].execution_id
            IN /\ Len(logs'[id][s]) = Len(logs[id][s]) + 1
               /\ IsPrefix(logs[id][s], logs'[id][s])
               /\ \A o \in Streams \ {s} : logs'[id][o] = logs[id][o]]_vars

\* a read of a capture thread of job k has raised
ReadFailed(k) == \E s \in Streams : capPc[k][s] = "failed"

C26_MissingJarRaises ==
  [][(dsOp' = "execute" /\ ~jarExists /\ ~jarExists')
       => dsRet' = FileNotFound /\ dsRuns' = dsRuns]_vars

\* C26 witness: execute_command raised FileNotFoundError for a missing jar
\* before any command was launched.
C26_Witness ==
  dsOp = "execute" /\ ~jarExists /\ dsRet = FileNotFound /\ dsRuns = 0

\* the line that explains a status, if it has one
Explains(line, status) ==
  CASE status = "failed" -> line \in {ExitLine(c) : c \in {"0", "1", "-15", "-9", "None"}}
    [] status = "timeout" -> line = TimeoutLine
    [] status = "terminated" -> line = TerminateLine
    [] OTHER -> TRUE

\* C27: a view returned by get_execution_status (also at the end of
\* terminate_execution) with status failed, timeout or terminated holds the
\* stderr line that explains that status.
C27_StatusComesWithItsLine ==
  (apiOp \in {"get_status", "terminate"} /\ apiPc = "returned"
     /\ apiRet.status \in {"failed", "timeout", "terminated"})
    => \E i \in 1..Len(apiRet.stderr) : Explains(apiRet.stderr[i], apiRet.status)

\* C28: no operation on a registered job ends in a KeyError: an eviction
\* between the membership test and the lookup of the entry leaves the
\* operation able to return.
C28_EvictionSafeReaders ==
  (apiPc = "raised" /\ apiOp \in {"get_status", "terminate", "list"}
     /\ apiArg \in Registered)
    => apiRet.msg # "KeyError"

\* C29: a view returned by get_execution_status (also at the end of
\* terminate_execution) and an entry returned by list_executions never has a
\* terminal status together with is_running true.
C29_TerminalIsNotRunning ==
  /\ (apiOp \in {"get_status", "terminate"} /\ apiPc = "returned")
       => ~(apiRet.status \in Terminal /\ apiRet.is_running)
  /\ (apiOp = "list" /\ apiPc = "returned")
       => \A i \in 1..Len(apiRet.items) :
            ~(apiRet.items[i].status \in Terminal /\ apiRet.items[i].is_running)

\* C30: a step sends SIGKILL only to a process that is alive and was sent
\* SIGTERM before, and no step signals a process that has exited.
C30_TerminateBeforeKill ==
  [][\A p \in Jobs :
       /\ (proc'[p].sigkill /\ ~proc[p].sigkill)
            => proc[p].sigterm /\ proc[p].state = "alive"
       /\ proc[p].state = "exited" => proc'[p] = proc[p]]_vars

\* C30 witness: a process was ended by the SIGKILL that followed its SIGTERM.
C30_Witness ==
  \E p \in Jobs :
    proc[p].state = "exited" /\ proc[p].code = "-9" /\ proc[p].sigterm /\ proc[p].sigkill

\* the timeout of job k is breached
Breached(k) ==
  /\ k \in DOMAIN started
  /\ started[k].timeout # NoTimeout
  /\ now - started[k].start_time > started[k].timeout

\* the status of job k, none before the job is started
JobStatus(k) ==
  IF k \in DOMAIN started THEN logs[started[k].execution_id].status ELSE "none"

\* the status of job k is terminal
Ended(k) == JobStatus(k) \in Terminal

\* terminate_execution has found the process of job k running
Cancelling(k) == apiOp = "terminate" /\ apiFound /\ apiProc = k

\* the force-kill of job k does not succeed: from some point on the process
\* stays alive with the SIGKILL sent
KillFails(k) == <>[](proc[k].sigkill /\ proc[k].state = "alive")

\* C31: a cancelled job never hangs in status running: once its timeout is
\* breached or terminate_execution has found its process running, its status
\* eventually is terminal and terminate_execution is answered; and a job whose
\* force-kill does not succeed ends in status error.
C31_CancelNeverHangs ==
  \A k \in Jobs :
    /\ Breached(k) ~> Ended(k)
    /\ Cancelling(k) ~> (Ended(k) /\ Answered)
    /\ KillFails(k) => <>[](JobStatus(k) = "error")

\* C32: while a job's process has exited by itself within the job's timeout
\* and the job was never handed to terminate_execution, the process was sent
\* no signal, the monitor is not on its timeout path, the status is not
\* timeout and the timeout line is not in stderr; once the monitor is done the
\* status is completed for exit code 0 and failed otherwise.
C32_NaturalExitNoTermination ==
  \A k \in DOMAIN started :
    (started[k].ok /\ (ExitedZeroInTime(k) \/ ExitedOneInTime(k)) /\ k \notin termCalled)
      => LET id == started[k].execution_id
         IN /\ ~proc[k].sigterm /\ ~proc[k].sigkill
            /\ monPc[k] \notin {"to_term", "to_wait", "to_set", "to_append"}
            /\ logs[id].status # "timeout"
            /\ ~Has(id, TimeoutLine)
            /\ monPc[k] = "done"
                 => logs[id].status = IF proc[k].code = "0" THEN "completed" ELSE "failed"

\* C33: a step that removes the active_executions entry of a job is the
\* delayed_cleanup of that job's own monitor, which was done by then; at that
\* step the job's status is terminal and its process has exited.
C33_EvictionOnlyOfEndedJobs ==
  [][\A id \in DOMAIN active :
       id \notin DOMAIN active'
         => LET k == active[id].process
            IN /\ cleanPc[k] = "sleeping" /\ cleanPc'[k] = "done"
               /\ monPc[k] = "done"
               /\ logs[id].status \in Terminal
               /\ proc[k].state = "exited"]_vars

\* the active_executions entry of job k was removed by the job's cleanup
Evicted(k) ==
  /\ k \in DOMAIN started
  /\ cleanPc[k] = "done"
  /\ started[k].execution_id \notin DOMAIN active

\* C34: every job whose start succeeded and whose status is terminal
\* eventually has its active_executions entry removed by its delayed cleanup.
C34_EndedJobIsEvicted ==
  \A k \in Jobs : (Ended(k) /\ started[k].ok) ~> Evicted(k)

\* the step starts a worker thread of job k
StartsWorker(k) ==
  \/ monPc[k] = "none" /\ monPc'[k] = "start"
  \/ \E s \in Streams : capPc[k][s] = "none" /\ capPc'[k][s] = "reading"

\* a step that starts a worker of a job finds the job's two entries, with
\* status running, and with empty logs when it is the first worker; and a
\* worker that is about to look its job up finds it
RegisteredBeforeWorkers ==
  \A k \in Jobs :
    /\ StartsWorker(k)
         => /\ k \in DOMAIN started
            /\ started[k].execution_id \in DOMAIN active
            /\ started[k].execution_id \in DOMAIN logs
            /\ logs[started[k].execution_id].status = "running"
            /\ capPc[k].stdout = "none" => logs[started[k].execution_id] = NewLogs
    /\ monPc'[k] = "start" => started'[k].execution_id \in DOMAIN active'
    /\ \A s \in Streams :
         capPc'[k][s] = "reading" => started'[k].execution_id \in DOMAIN logs'

\* execute_nb5_command has returned the id of a job it started
StartReturned == apiOp = "execute" /\ apiPc = "returned" /\ apiRet.kind = "started"

\* C35 (as stated): the job is registered, with status running and empty
\* logs, before its capture and monitor threads are started, no worker finds
\* its job missing, and when execute_nb5_command returns the id,
\* get_execution_status(id) finds the job and reports status running.
C35_RunningAtReturn ==
  [][/\ RegisteredBeforeWorkers
     /\ StartReturned'
          => /\ apiRet'.execution_id \in DOMAIN logs'
             /\ logs'[apiRet'.execution_id].status = "running"]_vars

\* C35 (amended): as above, but when execute_nb5_command returns the id,
\* get_execution_status(id) finds the job and reports status running or the
\* terminal status the job's monitor has written since it was started.
C35_RegisteredAtReturn ==
  [][/\ RegisteredBeforeWorkers
     /\ StartReturned'
          => LET id == apiRet'.execution_id
             IN /\ id \in DOMAIN logs'
                /\ \/ logs'[id].status = "running"
                   \/ /\ logs'[id].status \in Terminal
                      /\ monPc'[apiProc'] \notin {"none", "start", "loop", "check"}]_vars

\* C35 witness: execute_nb5_command returns the id of a job whose monitor
\* has already finalized it.
C35_Witness ==
  /\ StartReturned
  /\ logs[apiRet.execution_id].status = "failed"
  /\ monPc[apiProc] = "done"

\* job k was started without a timeout (None or 0: line 216 tests the
\* truth value)
Unlimited(k) == k \in DOMAIN started /\ started[k].timeout = NoTimeout

\* C36: for a job started without a timeout the monitor is never on its
\* timeout path, the status is never timeout and the timeout line is never in
\* stderr; its process is signalled only once terminate_execution has taken it
\* in hand; and its status is completed or failed only after the process has
\* exited, terminated only through terminate_execution, error only through
\* the monitor's handler.
C36_NoTimeoutNoLimit ==
  \A k \in Jobs :
    Unlimited(k)
      => LET id == started[k].execution_id
         IN /\ monPc[k] \notin {"to_term", "to_wait", "to_set", "to_append"}
            /\ logs[id].status # "timeout"
            /\ ~Has(id, TimeoutLine)
            /\ (proc[k].sigterm \/ proc[k].sigkill) => k \in termCalled
            /\ logs[id].status \in {"completed", "failed"} => proc[k].state = "exited"
            /\ logs[id].status = "terminated" => k \in termCalled
            /\ logs[id].status = "error" => monPc[k] \in {"err_append", "done"}

\* C36 witness: a job without a timeout is still running, its process alive
\* and unsignalled, when the clock has reached its last reading and the
\* monitor has polled again.
C36_Witness ==
  \E k \in Jobs :
    /\ Unlimited(k)
    /\ now = MaxTime /\ now - started[k].start_time > 1
    /\ monPc[k] = "check"
    /\ proc[k].state = "alive" /\ ~proc[k].sigterm
    /\ logs[started[k].execution_id].status = "running"

\* no API operation is in flight
BetweenOperations == apiPc \in {"idle", "returned", "raised"}

\* C37: whenever no API operation is in flight every key of
\* active_executions is a key of execution_logs, and no step removes a key
\* from execution_logs.
C37_RegistryConsistent ==
  [][/\ BetweenOperations' => DOMAIN active' \subseteq DOMAIN logs'
     /\ DOMAIN logs \subseteq DOMAIN logs']_vars

\* C37 witness: between two operations a job is known to execution_logs
\* after its cleanup has removed it from active_executions.
C37_Witness ==
  /\ apiPc = "idle"
  /\ \E k \in DOMAIN started :
       /\ cleanPc[k] = "done"
       /\ started[k].execution_id \in DOMAIN logs
       /\ started[k].execution_id \notin DOMAIN active

====
